---- MODULE Spec2Model ----
(***************************************************************************)
(* whosecourt: a webhook handler that keeps exactly one of the labels      *)
(* reviewers_court / authors_court on a pull request.                      *)
(*                                                                         *)
(* Two generations of the program are modelled:                            *)
(*   - src/main.go + src/auth.go : the Lambda handler, whose changeCourt   *)
(*     removes the other court label and then adds the target label        *)
(*     (the incremental strategy);                                         *)
(*   - src/unnamed/part_000      : the earlier HTTP server, whose          *)
(*     changeCourt rewrites the label list of the pull request object and  *)
(*     persists it with one Edit call (the rewrite strategy).              *)
(* The code-hosting provider is modelled by the state it keeps (labels of  *)
(* each repository, labels of each pull request) and by the answers its    *)
(* endpoints give.                                                         *)
(***************************************************************************)
EXTENDS Integers, Sequences, FiniteSets, TLC

\* ------------------------------------------------------------------ bounds
\* Number of events the handler processes in one behaviour.
MaxEvents == 2

\* ------------------------------------------------------- program constants
REVIEWER_COURT == "reviewers_court"
AUTHOR_COURT == "authors_court"
ReviewerLabels == {REVIEWER_COURT, AUTHOR_COURT}
\* part_000 keeps the names in a slice and ranges over it in order
ReviewerLabelsSlice == <<REVIEWER_COURT, AUTHOR_COURT>>

\* ------------------------------------------------------------ the universe
Repos == {"r1", "r2"}
Procs == {1, 2}
OtherLabels == {"bug", "docs"}
UnknownCourt == "unknown_court"
LabelNames == ReviewerLabels \cup OtherLabels \cup {UnknownCourt}

\* The provider gives every label of every repository its own identifier.
NameIndex(n) ==
  CASE n = REVIEWER_COURT -> 1
    [] n = AUTHOR_COURT -> 2
    [] n = "bug" -> 3
    [] n = "docs" -> 4
    [] OTHER -> 5
LabelId(repo, n) == (IF repo = "r1" THEN 10 ELSE 20) + NameIndex(n)
LabelObj(repo, n) == [ID |-> LabelId(repo, n), Name |-> n]
NilLabel == [ID |-> 0, Name |-> "nil"]

\* errors are message chains, outermost message first; nil is the empty chain
NoErr == <<>>
Wrap(err, msg) == <<msg>> \o err
JsonErr == <<"invalid character">>
InstallationErr == <<"GET /app/installations: 404">>
TokenExchangeErr == <<"POST access_tokens: 403">>
NotFoundErr == <<"404 Not Found">>
ServerErr == <<"500 Server Error">>
AlreadyExistsErr == <<"422 already_exists">>
RepoInfoErr == <<"can't determine repository information from event">>
RootCause(err) == IF err = NoErr THEN NoErr ELSE <<err[Len(err)]>>

\* ----------------------------------------------------- sequence helpers
Range(s) == {s[i] : i \in DOMAIN s}

RECURSIVE SelectNames(_, _)
SelectNames(s, keep) ==
  IF s = <<>> THEN <<>>
  ELSE IF Head(s) \in keep THEN <<Head(s)>> \o SelectNames(Tail(s), keep)
  ELSE SelectNames(Tail(s), keep)

RECURSIVE Count(_, _)
Count(s, x) ==
  IF s = <<>> THEN 0
  ELSE (IF Head(s) = x THEN 1 ELSE 0) + Count(Tail(s), x)

NonCourt(s) == SelectNames(s, LabelNames \ ReviewerLabels)
Names(labels) == [i \in DOMAIN labels |-> labels[i].Name]
Snapshot(repo, names) == [i \in DOMAIN names |-> LabelObj(repo, names[i])]

VARIABLES
  prLabels,     \* provider: the labels on the pull request of each repository, in order
  repoLabels,   \* provider: the court labels that exist in each repository
  labelIds,     \* main.go:26   process-wide set of court label identifiers
  courtLabels,  \* main.go:25   process-wide map label name -> label object
  h,            \* per invocation of handleEvent: position and locals
  lastCourt,    \* per repository: court of the latest changeCourt that returned nil
  nEvents,      \* events received so far
  rw            \* part_000: the pull request object and result of the latest changeCourt

vars == <<prLabels, repoLabels, labelIds, courtLabels, h, lastCourt, nEvents, rw>>


\* ------------------------------------------------------------ event inputs
\* A comment body is a sequence of tokens; every maximal run of word
\* characters ([\w_]+) is one token, " " is a single space.
WordTokens == {"please", "review", "thanks", REVIEWER_COURT, AUTHOR_COURT, UnknownCourt}
BodyPlain == <<"please", " ", "review">>
BodyAuthors ==
  <<"please", " ", "review", " ", "<!--", " ", AUTHOR_COURT, " ", "-->", " ", "thanks">>
BodyReviewers == <<"<!--", " ", REVIEWER_COURT, " ", "-->">>
BodyUnknown == <<"<!--", " ", UnknownCourt, " ", "-->">>
BodyNoSpace == <<"<!--", AUTHOR_COURT, "-->">>
Bodies == {BodyPlain, BodyAuthors, BodyReviewers, BodyUnknown, BodyNoSpace}

\* the "id" field of a user object of the payload: the number when present,
\* nothing when the field is missing
Absent == <<>>
UserIdA == <<7>>
UserIdB == <<8>>

\* github.Repository as decoded from the payload
RepoObj(repo, form) ==
  [OwnerName |-> IF form = "owner" THEN "o" ELSE "",
   Name |-> repo,
   FullName |-> IF form = "bad" THEN <<"o", "sub", repo>> ELSE <<"o", repo>>]
RepoForms == {"owner", "full", "bad"}

\* the reviewer fields of a pull_request payload: "requested_reviewer" (a user,
\* or missing) and the list "pull_request.requested_reviewers"
Reviewers(requested, list) == [requested |-> requested, list |-> list]
NoReviewers == Reviewers(Absent, <<>>)
OneReviewer == Reviewers(UserIdB, <<UserIdB>>)
ReviewerFields ==
  {NoReviewers, OneReviewer, Reviewers(UserIdB, <<>>), Reviewers(Absent, <<UserIdB>>)}

Payload(kind, action, reviewers, sender, author, body) ==
  [kind |-> kind, action |-> action, reviewers |-> reviewers,
   sender |-> sender, author |-> author, body |-> body]

PullRequestPayloads ==
  {Payload("pull_request", "opened", rv, UserIdA, UserIdA, <<>>) : rv \in ReviewerFields}
  \cup
  {Payload("pull_request", a, rv, UserIdA, UserIdA, <<>>) :
     a \in {"reopened", "review_requested"}, rv \in {NoReviewers, OneReviewer}}
  \cup
  {Payload("pull_request", "closed", OneReviewer, UserIdA, UserIdA, <<>>)}
  \cup
  {Payload("pull_request", "unlabeled", NoReviewers, s, UserIdA, <<>>) :
     s \in {UserIdA, UserIdB}}
  \cup
  {Payload("pull_request", "unlabeled", NoReviewers, Absent, Absent, <<>>)}
ReviewPayloads ==
  {Payload("pull_request_review", st, NoReviewers, UserIdB, UserIdA, <<>>) :
     st \in {"approved", "changes_requested", "commented"}}
CommentPayloads ==
  {Payload("pull_request_review_comment", "created", NoReviewers, UserIdB, UserIdA, b) :
     b \in Bodies}
OtherPayloads == {Payload("push", "", NoReviewers, UserIdA, UserIdA, <<>>)}
Payloads == PullRequestPayloads \cup ReviewPayloads \cup CommentPayloads \cup OtherPayloads

\* the payloads sent with every form of the repository object, and those sent
\* for the second repository
FormPayloads ==
  {Payload("pull_request", "opened", OneReviewer, UserIdA, UserIdA, <<>>),
   Payload("pull_request_review", "approved", NoReviewers, UserIdB, UserIdA, <<>>),
   Payload("pull_request_review_comment", "created", NoReviewers, UserIdB, UserIdA,
           BodyAuthors)}
SecondRepoPayloads ==
  FormPayloads \cup
  {Payload("pull_request", "unlabeled", NoReviewers, s, UserIdA, <<>>) :
     s \in {UserIdA, UserIdB}}

\* events.APIGatewayProxyRequest: method, x-github-event header and body
Request(method, pl, malformed, repo, form) ==
  [HTTPMethod |-> method, event |-> pl.kind, malformed |-> malformed,
   payload |-> pl, repoKey |-> repo, repo |-> RepoObj(repo, form)]
Requests ==
  {Request("POST", pl, FALSE, "r1", "full") : pl \in Payloads}
  \cup
  {Request("POST", pl, FALSE, "r1", f) : pl \in FormPayloads, f \in RepoForms}
  \cup
  {Request("POST", pl, FALSE, "r2", "full") : pl \in SecondRepoPayloads}
  \cup
  {Request("POST", Payload(k, "", NoReviewers, UserIdA, UserIdA, <<>>), TRUE, "r1", "full") :
     k \in {"pull_request", "pull_request_review", "pull_request_review_comment"}}
  \cup
  {Request("GET", Payload("pull_request", "opened", OneReviewer, UserIdA, UserIdA, <<>>),
           FALSE, "r1", "full")}

\* ---------------------------------------------------------- pure functions
\* json.Unmarshal allocates a fresh int64 for every "id" field it decodes:
\* a *int64 is an address and the value stored there; nil when the field is absent.
NilPtr == [addr |-> "nil", val |-> 0]
NewInt64(addr, v) == IF v = Absent THEN NilPtr ELSE [addr |-> addr, val |-> v[1]]
SenderAddr == "&event.Sender.ID"
UserAddr == "&event.PullRequest.User.ID"
ReviewerAddr == "event.RequestedReviewer"

\* main.go:62,107,118  json.Unmarshal into the event struct
Unmarshal(r, labels) ==
  [Action |-> r.payload.action,
   RequestedReviewer |-> NewInt64(ReviewerAddr, r.payload.reviewers.requested),
   RequestedReviewers |-> r.payload.reviewers.list,
   SenderID |-> NewInt64(SenderAddr, r.payload.sender),
   UserID |-> NewInt64(UserAddr, r.payload.author),
   Body |-> r.payload.body,
   Repo |-> r.repo,
   Labels |-> labels]

\* main.go:179  getRepoOwner
getRepoOwner(repo) ==
  IF repo.OwnerName # ""
    THEN [owner |-> repo.OwnerName, repoName |-> repo.Name, err |-> NoErr]
  ELSE IF Len(repo.FullName) - 1 = 1
    THEN [owner |-> repo.FullName[1], repoName |-> repo.FullName[2], err |-> NoErr]
  ELSE [owner |-> "", repoName |-> "", err |-> RepoInfoErr]

\* main.go:40  courtCommentRegex = "<!-- ([\w_]+) -->"; the positions where it matches
MatchAt(body, i) ==
  /\ i + 4 <= Len(body)
  /\ body[i] = "<!--"
  /\ body[i + 1] = " "
  /\ body[i + 2] \in WordTokens
  /\ body[i + 3] = " "
  /\ body[i + 4] = "-->"
Matches(body) == {i \in DOMAIN body : MatchAt(body, i)}
\* main.go:135  courtCommentRegex.Match
RegexMatch(body) == Matches(body) # {}
\* main.go:136  courtCommentRegex.FindStringSubmatch: leftmost match, whole match then group 1
FindStringSubmatch(body) ==
  IF Matches(body) = {} THEN <<>>
  ELSE LET i == CHOOSE j \in Matches(body) : \A k \in Matches(body) : j <= k
       IN <<SubSeq(body, i, i + 4), body[i + 2]>>

\* faulty variant: the branches exchanged, so that the target itself is removed
OldCourt_Swapped(court) == IF court = REVIEWER_COURT THEN REVIEWER_COURT ELSE AUTHOR_COURT

\* main.go:197-202  the label changeCourt removes
OldCourt(court) == IF court = REVIEWER_COURT THEN AUTHOR_COURT ELSE REVIEWER_COURT

\* faulty variant: only the first label of the snapshot is looked at
CourtLabelPresent_FirstOnly(labels, ids) == labels # <<>> /\ labels[1].ID \in ids

\* main.go:83-89  the unlabeled check: is a label of the snapshot in labelIds
CourtLabelPresent(labels, ids) == \E i \in DOMAIN labels : labels[i].ID \in ids

\* main.go:97-102  the court an unlabeled event resolves to; == compares the *int64 pointers
UnlabeledCourt(senderID, userID) ==
  IF senderID = userID THEN REVIEWER_COURT ELSE AUTHOR_COURT

\* events.APIGatewayProxyResponse and the error returned beside it
Response(status, body, err) == [StatusCode |-> status, Body |-> body, err |-> err]
NoResponse == Response(-1, <<>>, NoErr)

\* main.go:143-148  the response at the end of handleEvent
FinalResponse(err) ==
  IF err # NoErr THEN Response(500, err, err) ELSE Response(200, <<>>, NoErr)


\* ------------------------------------------------------------------ state
\* the labels a pull request may carry when the first event arrives
InitLabelSeqs ==
  {<<>>, <<"bug", "docs">>, <<REVIEWER_COURT>>, <<"bug", AUTHOR_COURT, "docs">>,
   <<"docs", REVIEWER_COURT, "bug">>, <<AUTHOR_COURT, REVIEWER_COURT>>}

\* no invocation is running: no request, the zero event
NoRequest ==
  Request("", Payload("", "", NoReviewers, Absent, Absent, <<>>), FALSE, "", "full")
IdleH ==
  [pc |-> "idle", req |-> NoRequest, ev |-> Unmarshal(NoRequest, <<>>), repo |-> "", token |-> "none",
   court |-> "", todo |-> {}, cur |-> "", resp |-> NoResponse, trace |-> <<>>,
   snap0 |-> <<>>, again |-> FALSE, steps |-> <<>>, resolved |-> FALSE,
   answers |-> <<>>, ids0 |-> {}, repo0 |-> {}, ccErr |-> NoErr]

NoRw == [pc |-> "idle", repo |-> "", court |-> "", snapshot |-> <<>>, Labels |-> <<>>,
         edits |-> 0, err |-> NoErr, calls |-> 0]

Init ==
  /\ prLabels \in [Repos -> InitLabelSeqs]
  /\ prLabels["r2"] \in {<<>>, <<REVIEWER_COURT>>}
  /\ repoLabels \in [Repos -> SUBSET ReviewerLabels]
  /\ \A r \in Repos : Range(prLabels[r]) \cap ReviewerLabels \subseteq repoLabels[r]
  /\ \A r \in Repos : repoLabels[r] \in {Range(prLabels[r]) \cap ReviewerLabels, ReviewerLabels}
  /\ labelIds = {}
  /\ courtLabels = <<>>
  /\ h = [p \in Procs |-> IdleH]
  /\ lastCourt = [r \in Repos |-> ""]
  /\ nEvents = 0
  /\ rw = NoRw

Quiet == \A q \in Procs : h[q].pc = "idle"

\* the requests that reach the provider's label mutation endpoints
MutationCalls == {"RemoveLabelForIssue", "AddLabelsToIssue", "Edit"}
Mutations(trace) == SelectNames(trace, MutationCalls)

\* oauth2.NewClient(ctx, source) asks InstallationTokenSource.Token for a token
\* when a request needs one and none is held (auth.go:57-78, auth.go:108).
\* "held": a token is held; "ok" / "403": the token endpoint's answer.
TokenOutcomes(hp) == IF hp.token = "valid" THEN {"held"} ELSE {"ok", "403"}
\* auth.go:64-71  the error Token returns
TokenErr(tok) == IF tok = "403" THEN TokenExchangeErr ELSE NoErr
\* the requests sent for one API call: the token exchange when one is made,
\* then the call itself unless the exchange failed
Sent(tok, call) ==
  (IF tok = "held" THEN <<>> ELSE <<"Token:" \o tok>>) \o (IF tok = "403" THEN <<>> ELSE <<call>>)

\* what a go-github call hands back: the response (nil when no response was
\* received) and the error
Answer(nil, status, err) == [nil |-> nil, StatusCode |-> status, err |-> err]

\* the answers the invocation has received, in order
Logged(hp, call, ans) == [hp EXCEPT !.answers = Append(@, [call |-> call, ans |-> ans])]
AnswersTo(hp, call) == {i \in DOMAIN hp.answers : hp.answers[i].call = call}

\* faulty variant: every failed fetch is followed by a create
NeedsCreate_AnyError(ans) == ans.err # NoErr

\* main.go:163  is the label to be created: the fetch was answered 404
NeedsCreate(ans) == ~ans.nil /\ ans.StatusCode = 404

\* faulty variant: the map keeps only the label recorded last
PutLabel_Overwrite(m, label) == [n \in {label.Name} |-> label]

\* main.go:172-173  record a label in the process-wide cache
PutLabel(m, label) ==
  [n \in DOMAIN m \cup {label.Name} |-> IF n = label.Name THEN label ELSE m[n]]

Return(hp, resp) == [hp EXCEPT !.pc = "done", !.resp = resp]

\* provider: remove a label from a pull request / add one at the end
Without(s, n) == SelectNames(s, LabelNames \ {n})
With(s, n) == IF n \in Range(s) THEN s ELSE Append(s, n)

\* ------------------------------------------------------- main.go handleEvent
\* main.go:53-66,105-110,116-122  receive the request and decode its body
handleEvent(p, r) ==
  /\ h[p].pc = "idle"
  /\ nEvents < MaxEvents
  /\ nEvents' = nEvents + 1
  /\ LET hp == [IdleH EXCEPT !.req = r, !.repo = r.repoKey, !.snap0 = prLabels[r.repoKey],
                            !.ev = Unmarshal(r, Snapshot(r.repoKey, prLabels[r.repoKey]))]
         known == r.event \in {"pull_request", "pull_request_review",
                               "pull_request_review_comment"}
     IN h' = [h EXCEPT ![p] =
          IF r.HTTPMethod # "POST" \/ ~known THEN Return(hp, FinalResponse(NoErr))
          ELSE IF r.malformed THEN
            IF r.event = "pull_request_review"
              THEN Return(hp, Response(400, Wrap(JsonErr, "Unable to decode JSON"), NoErr))
              ELSE Return(hp, Response(0, <<>>, Wrap(JsonErr, "Invalid JSON received")))
          ELSE [hp EXCEPT !.pc = "initClient"]]
  /\ UNCHANGED <<prLabels, repoLabels, labelIds, courtLabels, lastCourt, rw>>

\* faulty variant: a review that asks for changes hands the ball to the author
ReviewCourt_ByState(ev) ==
  IF ev.Action = "changes_requested" THEN AUTHOR_COURT ELSE REVIEWER_COURT

\* main.go:115  the court of a pull_request_review event, whatever the review says
ReviewCourt(ev) == REVIEWER_COURT

\* auth.go:103-110, 41-55  initClientForInstallation: GetInstallation with the app
\* assertion; main.go:68-71,111-114,124-127 return on failure
initClientForInstallation(p) ==
  /\ h[p].pc = "initClient"
  /\ \E ok \in BOOLEAN :
       LET hp == [h[p] EXCEPT !.trace = Append(@, "GetInstallation"),
                              !.steps = Append(@, "initClientForInstallation")]
       IN h' = [h EXCEPT ![p] =
            IF ~ok THEN Return(hp, Response(0, <<>>,
                                 Wrap(InstallationErr, "Unable to connect to github")))
            ELSE IF hp.req.event = "pull_request_review"
              THEN [hp EXCEPT !.pc = "changeCourt", !.court = ReviewCourt(hp.ev)]
            ELSE [hp EXCEPT !.pc = "loadLabels"]]
  /\ UNCHANGED <<prLabels, repoLabels, labelIds, courtLabels, lastCourt, nEvents, rw>>

LoadLabelsFailed(hp, err) ==
  Return(hp, Response(0, <<>>, Wrap(err, "Unable to load labels for repository")))

\* main.go:151-158  loadLabels: the fast path and getRepoOwner
loadLabels(p) ==
  /\ h[p].pc = "loadLabels"
  /\ LET o == getRepoOwner(h[p].ev.Repo)
         hp == [h[p] EXCEPT !.steps = Append(@, "loadLabels"), !.ids0 = labelIds,
                            !.repo0 = IF o.err = NoErr THEN repoLabels[o.repoName] ELSE {}]
     IN h' = [h EXCEPT ![p] =
          IF Cardinality(labelIds) = Cardinality(ReviewerLabels)
            THEN [hp EXCEPT !.pc = "resolve"]
          ELSE IF o.err # NoErr THEN LoadLabelsFailed(hp, o.err)
          ELSE [hp EXCEPT !.pc = "GetLabel", !.todo = ReviewerLabels]]
  /\ UNCHANGED <<prLabels, repoLabels, labelIds, courtLabels, lastCourt, nEvents, rw>>

\* main.go:172-174  record the label and move to the next name of the range
Recorded(hp, l) ==
  [hp EXCEPT !.todo = @ \ {l}, !.cur = "",
             !.pc = IF hp.todo \ {l} = {} THEN "resolve" ELSE "GetLabel"]

\* main.go:159-171  one iteration of the range over ReviewerLabels (a map: any order)
GetLabel(p) ==
  /\ h[p].pc = "GetLabel"
  /\ \E l \in h[p].todo, tok \in TokenOutcomes(h[p]), fail \in BOOLEAN :
       LET repo == getRepoOwner(h[p].ev.Repo).repoName
           label == LabelObj(repo, l)
           ans == IF tok = "403" THEN Answer(TRUE, 0, TokenErr(tok))
                  ELSE IF fail THEN Answer(FALSE, 500, ServerErr)
                  ELSE IF l \notin repoLabels[repo] THEN Answer(FALSE, 404, NotFoundErr)
                  ELSE Answer(FALSE, 200, NoErr)
           hp == Logged([h[p] EXCEPT !.trace = @ \o Sent(tok, "GetLabel"),
                                     !.token = IF tok = "403" THEN "none" ELSE "valid"],
                        "GetLabel", ans)
       IN /\ tok = "403" => fail = FALSE
          /\ IF NeedsCreate(ans) THEN
               /\ h' = [h EXCEPT ![p] = [hp EXCEPT !.pc = "CreateLabel", !.cur = l]]
               /\ UNCHANGED <<labelIds, courtLabels>>
             ELSE IF ans.err # NoErr THEN
               /\ h' = [h EXCEPT ![p] = LoadLabelsFailed(hp, ans.err)]
               /\ UNCHANGED <<labelIds, courtLabels>>
             ELSE
               /\ h' = [h EXCEPT ![p] = Recorded(hp, l)]
               /\ labelIds' = labelIds \cup {label.ID}
               /\ courtLabels' = PutLabel(courtLabels, label)
  /\ UNCHANGED <<prLabels, repoLabels, lastCourt, nEvents, rw>>

\* main.go:163-168  create the label GetLabel did not find
CreateLabel(p) ==
  /\ h[p].pc = "CreateLabel"
  /\ \E tok \in TokenOutcomes(h[p]), fail \in BOOLEAN :
       LET l == h[p].cur
           repo == getRepoOwner(h[p].ev.Repo).repoName
           label == LabelObj(repo, l)
           ans == IF tok = "403" THEN Answer(TRUE, 0, TokenErr(tok))
                  ELSE IF l \in repoLabels[repo] THEN Answer(FALSE, 422, AlreadyExistsErr)
                  ELSE IF fail THEN Answer(FALSE, 500, ServerErr)
                  ELSE Answer(FALSE, 201, NoErr)
           err == ans.err
           hp == Logged([h[p] EXCEPT !.trace = @ \o Sent(tok, "CreateLabel"),
                                     !.token = IF tok = "403" THEN "none" ELSE "valid"],
                        "CreateLabel", ans)
       IN /\ (tok = "403" \/ l \in repoLabels[repo]) => fail = FALSE
          /\ IF err # NoErr THEN
               /\ h' = [h EXCEPT ![p] =
                          LoadLabelsFailed(hp, Wrap(err, "Unable to create label"))]
               /\ UNCHANGED <<labelIds, courtLabels, repoLabels>>
             ELSE
               /\ h' = [h EXCEPT ![p] = Recorded(hp, l)]
               /\ repoLabels' = [repoLabels EXCEPT ![repo] = @ \cup {l}]
               /\ labelIds' = labelIds \cup {label.ID}
               /\ courtLabels' = PutLabel(courtLabels, label)
  /\ UNCHANGED <<prLabels, lastCourt, nEvents, rw>>


\* faulty variant: the action list of the earlier server, which has no "reopened"
PullRequestCourt_NoReopened(ev, ids) ==
  IF ev.Action \in {"review_requested", "opened"}
    THEN (IF ev.RequestedReviewer # NilPtr \/ Len(ev.RequestedReviewers) > 0
            THEN REVIEWER_COURT ELSE "")
  ELSE IF ev.Action = "unlabeled"
    THEN (IF CourtLabelPresent(ev.Labels, ids) THEN ""
          ELSE UnlabeledCourt(ev.SenderID, ev.UserID))
  ELSE ""

\* main.go:77-104  the court a pull_request event resolves to ("": nothing to do)
PullRequestCourt(ev, ids) ==
  IF ev.Action \in {"review_requested", "opened", "reopened"}
    THEN (IF ev.RequestedReviewer # NilPtr \/ Len(ev.RequestedReviewers) > 0
            THEN REVIEWER_COURT ELSE "")
  ELSE IF ev.Action = "unlabeled"
    THEN (IF CourtLabelPresent(ev.Labels, ids) THEN ""
          ELSE UnlabeledCourt(ev.SenderID, ev.UserID))
  ELSE ""

\* main.go:134-140  the court a review comment resolves to ("": nothing to do)
CommentCourt(body) ==
  IF RegexMatch(body)
    THEN LET labels == FindStringSubmatch(body)
         IN IF Len(labels) > 1 THEN labels[2] ELSE ""
  ELSE ""

\* main.go:77-104,134-140  after loadLabels: call changeCourt or fall to the final response
resolve(p) ==
  /\ h[p].pc = "resolve"
  /\ LET court == IF h[p].req.event = "pull_request"
                    THEN PullRequestCourt(h[p].ev, labelIds)
                    ELSE CommentCourt(h[p].ev.Body)
         hp == [h[p] EXCEPT !.resolved = TRUE]
     IN h' = [h EXCEPT ![p] =
          IF court = "" THEN Return(hp, FinalResponse(NoErr))
          ELSE [hp EXCEPT !.pc = "changeCourt", !.court = court]]
  /\ UNCHANGED <<prLabels, repoLabels, labelIds, courtLabels, lastCourt, nEvents, rw>>

\* main.go:104,115,138,143-148  changeCourt has returned err: handleEvent assigns
\* it to the err in scope and falls to the final check. The pull_request clause
\* assigns the function's err; the review and review-comment clauses declared
\* their own with "client, err :=" (main.go:111, 124), so the final check reads
\* the function's err, which the successful Unmarshal left nil
Returned(hp, err) ==
  Return([hp EXCEPT !.ccErr = err],
         FinalResponse(IF hp.req.event = "pull_request" THEN err ELSE NoErr))

\* main.go:195-207  changeCourt up to its first request
changeCourt(p) ==
  /\ h[p].pc = "changeCourt"
  /\ LET o == getRepoOwner(h[p].ev.Repo)
         hp == [h[p] EXCEPT !.again = (lastCourt[h[p].repo] = h[p].court),
                            !.steps = Append(@, "changeCourt")]
     IN IF o.err # NoErr
          THEN /\ h' = [h EXCEPT ![p] = Returned(hp, o.err)]
               /\ lastCourt' = [lastCourt EXCEPT ![hp.repo] = ""]
          ELSE /\ h' = [h EXCEPT ![p] = [hp EXCEPT !.pc = "RemoveLabelForIssue"]]
               /\ UNCHANGED lastCourt
  /\ UNCHANGED <<prLabels, repoLabels, labelIds, courtLabels, nEvents, rw>>

\* faulty variant: the nil check on the response left out
RemoveFailed_NoNilCheck(ans) == ans.err # NoErr /\ ~ans.nil /\ ans.StatusCode # 404

\* main.go:209  does changeCourt return the error of the removal
RemoveFailed(ans) == ans.err # NoErr /\ (ans.nil \/ ans.StatusCode # 404)

\* main.go:208-211  remove the other court label from the pull request
RemoveLabelForIssue(p) ==
  /\ h[p].pc = "RemoveLabelForIssue"
  /\ \E tok \in TokenOutcomes(h[p]), fail \in BOOLEAN :
       LET repo == getRepoOwner(h[p].ev.Repo).repoName
           old == OldCourt(h[p].court)
           present == old \in Range(prLabels[repo])
           ans == IF tok = "403" THEN Answer(TRUE, 0, TokenErr(tok))
                  ELSE IF fail THEN Answer(FALSE, 500, ServerErr)
                  ELSE IF present THEN Answer(FALSE, 200, NoErr)
                  ELSE Answer(FALSE, 404, NotFoundErr)
           hp == Logged([h[p] EXCEPT !.trace = @ \o Sent(tok, "RemoveLabelForIssue"),
                                     !.token = IF tok = "403" THEN "none" ELSE "valid"],
                        "RemoveLabelForIssue", ans)
       IN /\ tok = "403" => fail = FALSE
          /\ prLabels' = IF ans.err = NoErr
                           THEN [prLabels EXCEPT ![repo] = Without(@, old)]
                           ELSE prLabels
          /\ IF RemoveFailed(ans)
               THEN /\ h' = [h EXCEPT ![p] = Returned(hp, ans.err)]
                    /\ lastCourt' = [lastCourt EXCEPT ![hp.repo] = ""]
               ELSE /\ h' = [h EXCEPT ![p] = [hp EXCEPT !.pc = "AddLabelsToIssue"]]
                    /\ UNCHANGED lastCourt
  /\ UNCHANGED <<repoLabels, labelIds, courtLabels, nEvents, rw>>

\* main.go:212-213  add the target label; its error is changeCourt's result
AddLabelsToIssue(p) ==
  /\ h[p].pc = "AddLabelsToIssue"
  /\ \E tok \in TokenOutcomes(h[p]), fail \in BOOLEAN :
       LET repo == getRepoOwner(h[p].ev.Repo).repoName
           court == h[p].court
           ans == IF tok = "403" THEN Answer(TRUE, 0, TokenErr(tok))
                  ELSE IF fail THEN Answer(FALSE, 500, ServerErr)
                  ELSE Answer(FALSE, 200, NoErr)
           err == ans.err
           hp == Logged([h[p] EXCEPT !.trace = @ \o Sent(tok, "AddLabelsToIssue"),
                                     !.token = IF tok = "403" THEN "none" ELSE "valid"],
                        "AddLabelsToIssue", ans)
       IN /\ tok = "403" => fail = FALSE
          /\ IF err = NoErr
               THEN /\ prLabels' = [prLabels EXCEPT ![repo] = With(@, court)]
                    /\ repoLabels' = [repoLabels EXCEPT ![repo] =
                                        @ \cup ({court} \cap ReviewerLabels)]
               ELSE UNCHANGED <<prLabels, repoLabels>>
          /\ h' = [h EXCEPT ![p] = Returned(hp, err)]
          /\ lastCourt' = [lastCourt EXCEPT ![hp.repo] = IF err = NoErr THEN court ELSE ""]
  /\ UNCHANGED <<labelIds, courtLabels, nEvents, rw>>

\* main.go:50  lambda.Start hands the response back; the invocation is over
LambdaReturn(p) ==
  /\ h[p].pc = "done"
  /\ h' = [h EXCEPT ![p] = IdleH]
  /\ UNCHANGED <<prLabels, repoLabels, labelIds, courtLabels, lastCourt, nEvents, rw>>

\* ---------------------------------------------------------- specification
\* one Lambda instance handles one event at a time
Next ==
  \/ \E r \in Requests : Quiet /\ handleEvent(1, r)
  \/ initClientForInstallation(1)
  \/ loadLabels(1)
  \/ GetLabel(1)
  \/ CreateLabel(1)
  \/ resolve(1)
  \/ changeCourt(1)
  \/ RemoveLabelForIssue(1)
  \/ AddLabelsToIssue(1)
  \/ LambdaReturn(1)

Spec == Init /\ [][Next]_vars


\* ------------------------------------------- part_000: the rewrite strategy
\* part_000:153  courtLabels[court]: a missing key yields the nil label
Lookup(m, n) == IF n \in DOMAIN m THEN m[n] ELSE NilLabel

\* part_000:146-158  the walk over pr.Labels: short is the early return at a
\* label that already is the target, out is newLabels
RECURSIVE RewriteLabels(_, _, _, _)
RewriteLabels(labels, court, ids, cl) ==
  IF labels = <<>> THEN [short |-> FALSE, out |-> <<>>]
  ELSE LET l == Head(labels)
           rest == RewriteLabels(Tail(labels), court, ids, cl)
       IN IF l.ID \in ids
            THEN IF l.Name = court THEN [short |-> TRUE, out |-> <<>>]
                 ELSE [short |-> rest.short, out |-> <<Lookup(cl, court)>> \o rest.out]
          ELSE [short |-> rest.short, out |-> <<l>> \o rest.out]

\* part_000:133-140  the range over the slice from position i on; failAt is the
\* position whose GetLabel fails for a reason of the provider's (0: none does)
RECURSIVE LoadFrom(_, _, _, _, _)
LoadFrom(i, repo, failAt, ids, cl) ==
  IF i > Len(ReviewerLabelsSlice) THEN [ids |-> ids, cl |-> cl, err |-> NoErr, calls |-> 0]
  ELSE LET l == ReviewerLabelsSlice[i]
           label == LabelObj(repo, l)
       IN IF l \notin repoLabels[repo] THEN [ids |-> ids, cl |-> cl, err |-> NotFoundErr, calls |-> 1]
          ELSE IF failAt = i THEN [ids |-> ids, cl |-> cl, err |-> ServerErr, calls |-> 1]
          ELSE LET rest == LoadFrom(i + 1, repo, failAt, ids \cup {label.ID}, PutLabel(cl, label))
               IN [rest EXCEPT !.calls = @ + 1]

\* part_000:129-142  loadLabels(ctx, owner, repo)
RwLoadLabels(repo) ==
  /\ nEvents < MaxEvents
  /\ nEvents' = nEvents + 1
  /\ \E failAt \in 0..Len(ReviewerLabelsSlice) :
       LET res == IF Cardinality(labelIds) = Len(ReviewerLabelsSlice)
                    THEN [ids |-> labelIds, cl |-> courtLabels, err |-> NoErr, calls |-> 0]
                    ELSE LoadFrom(1, repo, failAt, labelIds, courtLabels)
       IN /\ labelIds' = res.ids
          /\ courtLabels' = res.cl
          /\ rw' = [NoRw EXCEPT !.pc = "loaded", !.repo = repo, !.err = res.err,
                                !.calls = res.calls]
  /\ UNCHANGED <<prLabels, repoLabels, h, lastCourt>>

\* part_000:144-162  changeCourt(ctx, court, pr) on a pull request object that
\* carries the labels the provider reports; Edit persists pr.Labels
RwChangeCourt(court, repo) ==
  /\ nEvents < MaxEvents
  /\ nEvents' = nEvents + 1
  /\ \E fail \in BOOLEAN :
       LET snapshot == Snapshot(repo, prLabels[repo])
           walk == RewriteLabels(snapshot, court, labelIds, courtLabels)
           err == IF NilLabel \in Range(walk.out) THEN <<"422 Validation Failed">>
                  ELSE IF fail THEN ServerErr ELSE NoErr
       IN /\ (walk.short \/ NilLabel \in Range(walk.out)) => fail = FALSE
          /\ IF walk.short
               THEN /\ rw' = [NoRw EXCEPT !.pc = "returned", !.repo = repo, !.court = court,
                                          !.snapshot = prLabels[repo], !.Labels = snapshot]
                    /\ UNCHANGED prLabels
               ELSE /\ rw' = [NoRw EXCEPT !.pc = "returned", !.repo = repo, !.court = court,
                                          !.snapshot = prLabels[repo], !.Labels = walk.out,
                                          !.edits = 1, !.err = err]
                    /\ prLabels' = IF err = NoErr
                                     THEN [prLabels EXCEPT ![repo] = Names(walk.out)]
                                     ELSE prLabels
  /\ UNCHANGED <<repoLabels, labelIds, courtLabels, h, lastCourt>>

NextRewrite ==
  \/ \E repo \in Repos : RwLoadLabels(repo)
  \/ \E court \in ReviewerLabels, repo \in Repos : RwChangeCourt(court, repo)

SpecRewrite == Init /\ [][NextRewrite]_vars


\* ================================================================== claims

\* ---- C1
\* C1: when the incremental changeCourt(T, pr) with T one of the two courts has
\* returned nil, the pull request carries T exactly once, carries no other court
\* label, and its non-court labels are those it had before the call, in the same order.
C1_IncrementalPostcondition ==
  \A p \in Procs :
    (/\ h[p].pc = "done"
     /\ h[p].court \in ReviewerLabels
     /\ "changeCourt" \in Range(h[p].steps)
     /\ h[p].ccErr = NoErr)
    => LET now == prLabels[h[p].repo]
       IN /\ Count(now, h[p].court) = 1
          /\ Range(now) \cap ReviewerLabels = {h[p].court}
          /\ NonCourt(now) = NonCourt(h[p].snap0)

\* the other court label and two non-court labels were on the pull request, the
\* removal found the label and the add succeeded
C1_Witness ==
  \E p \in Procs :
    /\ h[p].pc = "done"
    /\ h[p].court \in ReviewerLabels
    /\ h[p].ccErr = NoErr
    /\ "AddLabelsToIssue" \in Range(h[p].trace)
    /\ Range(h[p].snap0) \cap ReviewerLabels = ReviewerLabels \ {h[p].court}
    /\ Len(NonCourt(h[p].snap0)) = 2


\* ---- C2
\* C2: when the rewrite changeCourt(T, pr) has returned nil, the label list the
\* provider holds for the pull request contains T exactly once, no other court
\* label, and the non-court labels of the snapshot in their order (stated for a
\* cache that holds the identifiers of the court labels of the pull request's
\* repository, the case most favourable to the claim).
C2_RewritePostcondition ==
  (/\ rw.pc = "returned"
   /\ rw.err = NoErr
   /\ labelIds = {LabelId(rw.repo, n) : n \in ReviewerLabels})
  => LET now == prLabels[rw.repo]
     IN /\ Count(now, rw.court) = 1
        /\ Range(now) \cap ReviewerLabels = {rw.court}
        /\ NonCourt(now) = NonCourt(rw.snapshot)

\* ---- C3
\* C3: a changeCourt(T, pr) that directly follows a changeCourt(T, pr) which
\* returned nil sends no remove-label, add-labels or edit request.
C3_SecondCallNoMutation ==
  \A p \in Procs : h[p].again => Mutations(h[p].trace) = <<>>

\* ---- C4
\* C4: changeCourt(T, pr) on a pull request whose snapshot carries T and not the
\* other court label sends no remove-label, add-labels or edit request and
\* the event ends with status 200.
C4_NoMutationWhenSatisfied ==
  \A p \in Procs :
    (/\ "changeCourt" \in Range(h[p].steps)
     /\ h[p].court \in ReviewerLabels
     /\ Range(Names(h[p].ev.Labels)) \cap ReviewerLabels = {h[p].court})
    => /\ Mutations(h[p].trace) = <<>>
       /\ h[p].pc = "done" => h[p].resp.StatusCode = 200

\* ---- C5
\* C5: an unlabeled event whose snapshot has no known court label resolves to
\* reviewers_court when the sender's id value equals the author's id value and
\* to authors_court when the values differ.
C5_UnlabeledByActor ==
  \A p \in Procs :
    (/\ h[p].req.event = "pull_request"
     /\ h[p].ev.Action = "unlabeled"
     /\ h[p].resolved
     /\ \A i \in DOMAIN h[p].ev.Labels : h[p].ev.Labels[i].ID \notin labelIds)
    => h[p].court = IF h[p].req.payload.sender = h[p].req.payload.author
                      THEN REVIEWER_COURT ELSE AUTHOR_COURT

\* ---- C6
\* C6: an unlabeled event whose snapshot still has a label whose identifier is
\* in labelIds sends no remove-label or add-labels request, and once the
\* handler has come to the unlabeled check the event ends with status 200 and no error.
C6_UnlabeledNoOp ==
  \A p \in Procs :
    (/\ h[p].pc # "idle"
     /\ h[p].req.event = "pull_request"
     /\ h[p].ev.Action = "unlabeled"
     /\ \E i \in DOMAIN h[p].ev.Labels : h[p].ev.Labels[i].ID \in labelIds)
    => /\ Mutations(h[p].trace) = <<>>
       /\ h[p].resolved => /\ h[p].pc = "done"
                           /\ h[p].court = ""
                           /\ h[p].resp = Response(200, <<>>, NoErr)

\* the handler came to the unlabeled check with a court label left on the pull
\* request, behind a label that is no court label
C6_Witness ==
  \E p \in Procs :
    /\ h[p].req.event = "pull_request"
    /\ h[p].ev.Action = "unlabeled"
    /\ h[p].resolved
    /\ Len(h[p].ev.Labels) > 1
    /\ h[p].ev.Labels[1].ID \notin labelIds
    /\ \E i \in DOMAIN h[p].ev.Labels : h[p].ev.Labels[i].ID \in labelIds

\* ---- C7
\* C7: a review comment whose first marker names a known court resolves to that
\* court; one whose marker names anything else, or that has no marker, sends no
\* label mutation and, once the handler has resolved it, ends with status 200.
C7_CommentDirective ==
  \A p \in Procs :
    (h[p].req.event = "pull_request_review_comment" /\ h[p].resolved)
    => LET m == FindStringSubmatch(h[p].ev.Body)
           named == IF m = <<>> THEN "" ELSE m[2]
       IN IF named \in ReviewerLabels
            THEN h[p].court = named
            ELSE /\ Mutations(h[p].trace) = <<>>
                 /\ h[p].pc = "done"
                 /\ h[p].resp.StatusCode = 200

\* ---- C8
\* C8: when a step after the decoding fails (installation client, label
\* registry, remove or add), the response has status 500 and its body is the
\* error message.
C8_FailureIs500 ==
  \A p \in Procs :
    (/\ h[p].pc = "done"
     /\ "initClientForInstallation" \in Range(h[p].steps)
     /\ h[p].resp.err # NoErr \/ h[p].ccErr # NoErr)
    => /\ h[p].resp.StatusCode = 500
       /\ h[p].resp.Body # <<>>
       /\ h[p].resp.Body = h[p].resp.err

\* ---- C9
\* C9: a POST of one of the three event kinds whose body does not parse ends
\* with status 400 and no request was sent downstream.
C9_MalformedIs400 ==
  \A p \in Procs :
    (/\ h[p].pc = "done"
     /\ h[p].req.HTTPMethod = "POST"
     /\ h[p].req.malformed)
    => /\ h[p].resp.StatusCode = 400
       /\ h[p].trace = <<>>

\* ---- C10
\* C10: once the installation token endpoint has answered 403 in an event, the
\* event is over, no remove-label or add-labels request was sent in it, and the
\* handler returns an error whose cause is the token exchange error.
C10_TokenFailureNoMutation ==
  \A p \in Procs :
    "Token:403" \in Range(h[p].trace)
    => /\ Mutations(h[p].trace) = <<>>
       /\ h[p].pc = "done"
       /\ h[p].resp.err # NoErr
       /\ RootCause(h[p].resp.err) = TokenExchangeErr

\* ------------------------------------------------------------------ C11
\* loadLabels returned nil for the invocation
LoadedOk(hp) == "loadLabels" \in Range(hp.steps) /\ (hp.pc = "resolve" \/ hp.resolved)

BothIds(repo) == {LabelId(repo, n) : n \in ReviewerLabels}

\* C11: a loadLabels call that starts from an empty cache on a repository with
\* neither court label and returns nil has sent exactly two create-label
\* requests and leaves both ids in labelIds and both names in courtLabels; a
\* loadLabels call that starts from the cache such a call leaves sends nothing.
C11_RegistryWarmUp ==
  \A p \in Procs :
    LET repo == getRepoOwner(h[p].ev.Repo).repoName IN
    /\ (LoadedOk(h[p]) /\ h[p].ids0 = {} /\ h[p].repo0 = {})
       => /\ Count(h[p].trace, "CreateLabel") = Cardinality(ReviewerLabels)
          /\ labelIds = BothIds(repo)
          /\ DOMAIN courtLabels = ReviewerLabels
          /\ \A n \in ReviewerLabels : courtLabels[n] = LabelObj(repo, n)
    /\ ("loadLabels" \in Range(h[p].steps) /\ \E r \in Repos : h[p].ids0 = BothIds(r))
       => /\ LoadedOk(h[p]) \/ h[p].pc = "loadLabels"
          /\ SelectNames(h[p].trace, {"GetLabel", "CreateLabel"}) = <<>>
          /\ h[p].answers = <<>> \/ "changeCourt" \in Range(h[p].steps)

\* the cold start has just finished: both labels were created by this call
C11_Witness ==
  \E p \in Procs :
    /\ h[p].pc = "resolve"
    /\ h[p].ids0 = {} /\ h[p].repo0 = {}
    /\ Count(h[p].trace, "CreateLabel") = Cardinality(ReviewerLabels)
    /\ Cardinality(labelIds) = Cardinality(ReviewerLabels)

\* ------------------------------------------------------------------ C12
OpenActions == {"opened", "reopened", "review_requested"}
HandledKinds == {"pull_request", "pull_request_review", "pull_request_review_comment"}

\* C12: a pull_request event with action opened, reopened or review_requested
\* resolves to reviewers_court when the payload names a requested reviewer or
\* lists at least one; when it does neither, and for a pull_request event with
\* an action that has no rule, for an event kind that is not handled and for a
\* request that is no POST, no remove-label or add-labels request is sent and
\* the response is 200 without an error (for pull_request events: once the
\* handler has come to the rule, that is the client and the labels are there).
C12_PullRequestOpenRule ==
  \A p \in Procs :
    LET rv == h[p].req.payload.reviewers
        quiet == /\ Mutations(h[p].trace) = <<>>
                 /\ h[p].court = ""
                 /\ h[p].pc = "done"
                 /\ h[p].resp = Response(200, <<>>, NoErr)
    IN /\ (/\ h[p].req.event = "pull_request"
           /\ h[p].resolved
           /\ h[p].ev.Action \in OpenActions)
          => IF rv.requested # Absent \/ Len(rv.list) > 0
               THEN /\ h[p].court = REVIEWER_COURT
                    /\ h[p].pc = "changeCourt" \/ "changeCourt" \in Range(h[p].steps)
               ELSE quiet
       /\ (/\ h[p].req.event = "pull_request"
           /\ h[p].resolved
           /\ h[p].ev.Action \notin OpenActions \cup {"unlabeled"})
          => quiet
       /\ (/\ h[p].pc # "idle"
           /\ h[p].req.HTTPMethod # "POST" \/ h[p].req.event \notin HandledKinds)
          => quiet /\ h[p].trace = <<>>

\* a reopened pull request that lists a requested reviewer has come to changeCourt
C12_Witness ==
  \E p \in Procs :
    /\ h[p].req.event = "pull_request"
    /\ h[p].ev.Action = "reopened"
    /\ Len(h[p].req.payload.reviewers.list) > 0
    /\ "changeCourt" \in Range(h[p].steps)
    /\ h[p].court = REVIEWER_COURT

\* ------------------------------------------------------------------ C13
\* C13: a pull_request_review event whose body parsed and whose client was
\* created goes to changeCourt with reviewers_court, whatever the state of the
\* review (approved, changes_requested, commented), and the call addresses the
\* pull request of the event.
C13_ReviewSubmittedRule ==
  \A p \in Procs :
    (/\ h[p].req.event = "pull_request_review"
     /\ h[p].req.HTTPMethod = "POST"
     /\ ~h[p].req.malformed
     /\ h[p].pc \notin {"idle", "initClient"}
     /\ ~(h[p].pc = "done" /\ h[p].steps = <<"initClientForInstallation">>))
    => /\ h[p].court = REVIEWER_COURT
       /\ h[p].pc = "changeCourt" \/ "changeCourt" \in Range(h[p].steps)
       /\ h[p].repo = h[p].req.repoKey

\* a review that asks for changes has sent its requests for reviewers_court
C13_Witness ==
  \E p \in Procs :
    /\ h[p].req.event = "pull_request_review"
    /\ h[p].ev.Action = "changes_requested"
    /\ h[p].court = REVIEWER_COURT
    /\ h[p].pc = "done"
    /\ "AddLabelsToIssue" \in Range(h[p].trace)

\* ------------------------------------------------------------------ C14
\* the event was given up with an error before any request on the pull request
Aborted(hp) ==
  /\ hp.pc = "done"
  /\ hp.resp.err # NoErr
  /\ Mutations(hp.trace) = <<>>
  /\ "changeCourt" \notin Range(hp.steps)

\* C14: once a GetLabel has failed with anything but a 404 response, or a
\* CreateLabel has failed, that call is the last of the event, the handler has
\* returned an error and no remove-label or add-labels request was sent; and
\* every CreateLabel directly follows a GetLabel that was answered 404.
C14_RegistryFailureAborts ==
  \A p \in Procs :
    LET a == h[p].answers
    IN \A i \in DOMAIN a :
         /\ (/\ a[i].call = "GetLabel"
             /\ a[i].ans.err # NoErr
             /\ a[i].ans.nil \/ a[i].ans.StatusCode # 404)
            => i = Len(a) /\ Aborted(h[p])
         /\ (a[i].call = "CreateLabel" /\ a[i].ans.err # NoErr)
            => i = Len(a) /\ Aborted(h[p])
         /\ a[i].call = "CreateLabel"
            => /\ i > 1
               /\ a[i - 1].call = "GetLabel"
               /\ ~a[i - 1].ans.nil
               /\ a[i - 1].ans.StatusCode = 404

\* one label was recorded, the fetch of the other was answered 500
C14_Witness ==
  \E p \in Procs :
    /\ h[p].pc = "done"
    /\ Len(h[p].answers) = 2
    /\ h[p].answers[1].ans.StatusCode = 200
    /\ h[p].answers[2].call = "GetLabel"
    /\ h[p].answers[2].ans.StatusCode = 500

\* ------------------------------------------------------------------ C15
\* C15: in changeCourt, after a removal answered 404 (or 200) the add-labels
\* request follows; after any other failure of the removal changeCourt has
\* returned that error and no add-labels request was sent; and the error of a
\* failed add-labels request is what changeCourt returns.
C15_RemovalTolerance ==
  \A p \in Procs :
    LET a == h[p].answers
    IN \A i \in DOMAIN a :
         /\ (/\ a[i].call = "RemoveLabelForIssue"
             /\ ~a[i].ans.nil
             /\ a[i].ans.StatusCode \in {200, 404})
            => \/ h[p].pc = "AddLabelsToIssue" /\ i = Len(a)
               \/ i < Len(a) /\ a[i + 1].call = "AddLabelsToIssue"
         /\ (/\ a[i].call = "RemoveLabelForIssue"
             /\ a[i].ans.err # NoErr
             /\ a[i].ans.nil \/ a[i].ans.StatusCode # 404)
            => /\ i = Len(a)
               /\ h[p].pc = "done"
               /\ h[p].ccErr = a[i].ans.err
               /\ "AddLabelsToIssue" \notin Range(h[p].trace)
         /\ a[i].call = "AddLabelsToIssue"
            => /\ i = Len(a)
               /\ h[p].pc = "done"
               /\ h[p].ccErr = a[i].ans.err

\* the label to remove was not on the pull request: 404, and the add was sent
C15_Witness ==
  \E p \in Procs :
    /\ h[p].pc = "done"
    /\ \E i \in DOMAIN h[p].answers :
         /\ h[p].answers[i].call = "RemoveLabelForIssue"
         /\ h[p].answers[i].ans.StatusCode = 404
         /\ h[p].answers[i].ans.err # NoErr
    /\ "AddLabelsToIssue" \in Range(h[p].trace)
    /\ h[p].ccErr = NoErr

\* ------------------------------------------------- overlapping invocations
\* Invocations of handleEvent that overlap in time. They share the provider
\* (the labels of the repositories and of the pull requests) and the package
\* state labelIds / courtLabels of main.go:23-26; each step is one request with
\* the statements of the handler that follow it, so every interleaving here is
\* also one of the program.
ConcRequests ==
  {Request("POST", pl, FALSE, "r1", "full") :
     pl \in {Payload("pull_request_review", "approved", NoReviewers, UserIdB, UserIdA, <<>>),
             Payload("pull_request_review_comment", "created", NoReviewers, UserIdB,
                     UserIdA, BodyAuthors)}}

\* every pull request starts with at most one court label
InitConc ==
  /\ Init
  /\ \A r \in Repos : Cardinality(Range(prLabels[r]) \cap ReviewerLabels) <= 1
  /\ prLabels["r2"] = <<>> /\ repoLabels["r2"] = {}

NextConc ==
  \E p \in Procs :
    \/ \E r \in ConcRequests : handleEvent(p, r)
    \/ initClientForInstallation(p)
    \/ loadLabels(p)
    \/ GetLabel(p)
    \/ CreateLabel(p)
    \/ resolve(p)
    \/ changeCourt(p)
    \/ RemoveLabelForIssue(p)
    \/ AddLabelsToIssue(p)
    \/ LambdaReturn(p)

SpecConc == InitConc /\ [][NextConc]_vars

\* ------------------------------------------------------------------ C16
\* C16: whatever the interleaving of the remove and add requests of overlapping
\* changeCourt calls on a pull request that started with at most one court
\* label, the pull request carries at most one of reviewers_court and
\* authors_court.
C16_MutualExclusion ==
  \A r \in Repos : Cardinality(Range(prLabels[r]) \cap ReviewerLabels) <= 1

\* ------------------------------------------------------------------ C17
\* C17: an invocation whose CreateLabel was answered 422 (the label exists
\* already, created by an overlapping invocation) does not end its label
\* loading with an error, and when it has loaded, the cache holds a label for
\* both court names.
C17_BenignRegistryRace ==
  \A p \in Procs :
    (\E i \in DOMAIN h[p].answers :
       /\ h[p].answers[i].call = "CreateLabel"
       /\ h[p].answers[i].ans.StatusCode = 422)
    => /\ ~(h[p].pc = "done" /\ ~h[p].resolved)
       /\ h[p].resolved => DOMAIN courtLabels = ReviewerLabels

\* ------------------------------------------------------------------ C18
\* C18: an event that has come to changeCourt went through the creation of the
\* installation client, then loadLabels, then changeCourt, in that order.
C18_ProcessingOrder ==
  \A p \in Procs :
    "changeCourt" \in Range(h[p].steps)
    => h[p].steps = <<"initClientForInstallation", "loadLabels", "changeCourt">>

\* ------------------------------------------------------------------ C19
\* C19: labelIds never holds more than two identifiers, and they are the
\* identifiers of the labels stored in courtLabels.
C19_CacheSize ==
  /\ Cardinality(labelIds) <= Cardinality(ReviewerLabels)
  /\ labelIds = {courtLabels[n].ID : n \in DOMAIN courtLabels}

\* ------------------------------------------------------------------ C20
\* C20: an unlabeled event whose pull request still carries a label named
\* reviewers_court or authors_court is left alone once the handler has come to
\* the unlabeled check, whichever repository the cache was loaded from.
C20_CrossRepositoryRecognition ==
  \A p \in Procs :
    (/\ h[p].req.event = "pull_request"
     /\ h[p].ev.Action = "unlabeled"
     /\ h[p].resolved
     /\ \E i \in DOMAIN h[p].ev.Labels : h[p].ev.Labels[i].Name \in ReviewerLabels)
    => /\ h[p].court = ""
       /\ h[p].pc = "done"
       /\ Mutations(h[p].trace) = <<>>

====
